---- MODULE Spec2Model ----
(***************************************************************************)
(* Model of mikeoc61/currency_monitor.                                     *)
(*                                                                         *)
(*   src/currency_lambda.py  the Lambda page builder: CurrencyLayer        *)
(*                           .get_rates with the DynamoDB Rate Store       *)
(*   src/exchange.py         the console polling monitor                   *)
(*                                                                         *)
(* Decimal numbers are records [c, e] standing for c * 10^e, kept without  *)
(* trailing zeros, and every arithmetic operation rounds its exact result  *)
(* to Prec significant digits, half to even, as Python's decimal module    *)
(* does under getcontext().prec = 6.                                       *)
(***************************************************************************)
EXTENDS Integers, Sequences, FiniteSets, TLC

\* ------------------------------------------------------------------------
\* Python decimal arithmetic (src/currency_lambda.py:62, prec = 6)
\* ------------------------------------------------------------------------

\* getcontext().prec = 6
Prec == 6

RECURSIVE Pow10(_)
Pow10(n) == IF n <= 0 THEN 1 ELSE 10 * Pow10(n - 1)

Abs(x) == IF x < 0 THEN -x ELSE x

Sign(x) == IF x < 0 THEN -1 ELSE IF x = 0 THEN 0 ELSE 1

RECURSIVE Digits(_)
\* number of decimal digits of a natural number (0 has one)
Digits(n) == IF n < 10 THEN 1 ELSE 1 + Digits(n \div 10)

RECURSIVE Norm(_, _)
\* the decimal c * 10^e without trailing zeros: equal values, equal records
Norm(c, e) ==
    IF c = 0 THEN [c |-> 0, e |-> 0]
    ELSE IF Abs(c) % 10 = 0 THEN Norm(Sign(c) * (Abs(c) \div 10), e + 1)
    ELSE [c |-> c, e |-> e]

Dec(c, e) == Norm(c, e)

DecZero == Dec(0, 0)
DecOne == Dec(1, 0)

IsZero(x) == x.c = 0

\* ROUND_HALF_EVEN: q is the kept coefficient, cmp the sign of
\* (discarded part - half a unit of q)
HalfEven(q, cmp) ==
    IF cmp > 0 \/ (cmp = 0 /\ q % 2 = 1) THEN q + 1 ELSE q

\* the natural number m * 10^e rounded to Prec significant digits
RoundNat(m, e) ==
    LET n == Digits(m)
    IN  IF n <= Prec THEN Norm(m, e)
        ELSE LET d == n - Prec
                 q == m \div Pow10(d)
                 r == m % Pow10(d)
                 half == 5 * Pow10(d - 1)
             IN  Norm(HalfEven(q, Sign(r - half)), e + d)

DecNeg(x) == [c |-> -x.c, e |-> x.e]

\* c * 10^e rounded to the context precision
Round(c, e) ==
    IF c < 0 THEN DecNeg(RoundNat(-c, e)) ELSE RoundNat(c, e)

Min(a, b) == IF a < b THEN a ELSE b

\* coefficient of x at exponent e (e <= x.e)
Scaled(x, e) == x.c * Pow10(x.e - e)

\* Decimal.__add__: the exact sum, rounded
DecAdd(x, y) ==
    LET e == Min(x.e, y.e)
    IN  IF IsZero(x) THEN Round(y.c, y.e)
        ELSE IF IsZero(y) THEN Round(x.c, x.e)
        ELSE Round(Scaled(x, e) + Scaled(y, e), e)

\* Decimal.__sub__
DecSub(x, y) == DecAdd(x, DecNeg(y))

\* Decimal.__abs__
DecAbs(x) == Round(Abs(x.c), x.e)

\* sign of x - y, compared exactly (comparisons do not round)
DecCmp(x, y) ==
    IF Sign(x.c) # Sign(y.c) THEN Sign(Sign(x.c) - Sign(y.c))
    ELSE IF IsZero(x) THEN 0
    ELSE LET nx == Digits(Abs(x.c)) + x.e
             ny == Digits(Abs(y.c)) + y.e
             e == Min(x.e, y.e)
         IN  IF nx # ny THEN Sign(x.c) * Sign(nx - ny)
             ELSE Sign(Scaled(x, e) - Scaled(y, e))

DecLt(x, y) == DecCmp(x, y) < 0
DecLe(x, y) == DecCmp(x, y) <= 0
DecGt(x, y) == DecCmp(x, y) > 0
DecGe(x, y) == DecCmp(x, y) >= 0

\* the product a * b of naturals (a < 10^9, b < 2 * 10^6) as <<hi, lo>>,
\* a * b = hi * 10^6 + lo with lo < 10^6, computed limb by limb so that no
\* intermediate value leaves the 32-bit range
MulParts(a, b) ==
    LET t0 == (a % 1000) * b
        t1 == ((a \div 1000) % 1000) * b + t0 \div 1000
        t2 == (a \div 1000000) * b + t1 \div 1000
    IN  <<t2, (t1 % 1000) * 1000 + (t0 % 1000)>>

\* hi * 10^6 + lo (lo < 10^6) times 10^e, rounded to Prec digits
RoundParts(hi, lo, e) ==
    IF hi = 0 THEN RoundNat(lo, e)
    ELSE LET n == Digits(hi)
         IN  IF n <= Prec
             THEN LET q == hi * Pow10(Prec - n) + lo \div Pow10(n)
                      r == lo % Pow10(n)
                      half == 5 * Pow10(n - 1)
                  IN  Norm(HalfEven(q, Sign(r - half)), e + n)
             ELSE LET d == n - Prec
                      q == hi \div Pow10(d)
                      r == hi % Pow10(d)
                      half == 5 * Pow10(d - 1)
                      cmp == IF r # half THEN Sign(r - half)
                             ELSE IF lo > 0 THEN 1 ELSE 0
                  IN  Norm(HalfEven(q, cmp), e + 6 + d)

\* Decimal.__mul__: the exact product, rounded
DecMul(x, y) ==
    LET a == IF Abs(x.c) >= Abs(y.c) THEN Abs(x.c) ELSE Abs(y.c)
        b == IF Abs(x.c) >= Abs(y.c) THEN Abs(y.c) ELSE Abs(x.c)
        p == MulParts(a, b)
        m == RoundParts(p[1], p[2], x.e + y.e)
    IN  IF Sign(x.c) * Sign(y.c) < 0 THEN DecNeg(m) ELSE m

RECURSIVE DivAlign(_, _, _)
\* <<a', b', s>> with a / b = (a' / b') * 10^s and b' <= a' < 10 * b'
DivAlign(a, b, s) ==
    IF a < b THEN DivAlign(a * 10, b, s - 1)
    ELSE IF a \div 10 >= b THEN DivAlign(a, b * 10, s + 1)
    ELSE <<a, b, s>>

RECURSIVE LongDiv(_, _, _, _)
\* k more quotient digits of r / b appended to q: <<quotient, remainder>>
LongDiv(r, b, q, k) ==
    IF k = 0 THEN <<q, r>>
    ELSE LongDiv((r * 10) % b, b, q * 10 + (r * 10) \div b, k - 1)

\* Decimal.__truediv__ for a divisor other than zero: the quotient rounded
\* to Prec significant digits
DecDiv(x, y) ==
    IF IsZero(x) THEN DecZero
    ELSE LET al == DivAlign(Abs(x.c), Abs(y.c), 0)
             qr == LongDiv(al[1] % al[2], al[2], al[1] \div al[2], Prec - 1)
             q == HalfEven(qr[1], Sign(2 * qr[2] - al[2]))
             m == Norm(q, x.e - y.e + al[3] - (Prec - 1))
         IN  IF Sign(x.c) * Sign(y.c) < 0 THEN DecNeg(m) ELSE m

\* Decimal(int)
DecInt(n) == Norm(n, 0)

\* format(x, '.<places>f'): the number of 10^-places units in x, half even
Quantize(x, places) ==
    LET s == Sign(x.c)
        m == Abs(x.c)
        d == -(x.e + places)
    IN  IF d <= 0 THEN s * m * Pow10(-d)
        ELSE IF d > Digits(m) THEN 0
        ELSE s * HalfEven(m \div Pow10(d),
                          Sign((m % Pow10(d)) - 5 * Pow10(d - 1)))

\* ------------------------------------------------------------------------
\* Bounds of the model
\* ------------------------------------------------------------------------

\* batch timestamps lie 1..MaxDays days after the time the table was filled
MaxDays == 2
\* ... plus 0..MaxSkew seconds
MaxSkew == 1

\* ------------------------------------------------------------------------
\* src/currency_lambda.py: values
\* ------------------------------------------------------------------------

VARIABLES
    store,      \* the DynamoDB table: Abbr -> [Rate, Tstamp]
    live,       \* the request handlers (Lambda instances) that exist
    pc,         \* where each handler is
    rate_dict,  \* CurrencyLayer.rate_dict: the batch cl_validate() loaded
    cl_ts,      \* CurrencyLayer.cl_ts
    spread,     \* get_rates' spread after line 114
    todo,       \* the items the for loop of line 141 has yet to visit
    loc,        \* get_rates' locals in the iteration last run
    rate_html,  \* the <pre> records get_rates has rendered
    issued,     \* the update_item calls made in this cycle
    resp,       \* what build_resp returned
    exc         \* the exception that left lambda_handler

lvars == <<store, live, pc, rate_dict, cl_ts, spread, todo, loc, rate_html,
           issued, resp, exc>>

\* src/exchange.py: the console monitor
VARIABLES
    mpc,         \* where monitor() is: off, fetch, fetched, sleep, exited
    first_pass,  \* monitor's first_pass
    prev_hash,   \* monitor's prev_hash
    prev_quote,  \* monitor's prev_quote
    rates,       \* the dict get_rates() returned last
    quote_hash,  \* monitor's quote_hash
    shown,       \* what the last cycle printed
    displayed,   \* the table whose rates were printed last
    quote_delay, \* monitor's quote_delay, in seconds (the code keeps minutes)
    wait_time,   \* monitor's wait_time
    mexit        \* why the process ended

mvars == <<mpc, first_pass, prev_hash, prev_quote, rates, quote_hash, shown,
           displayed, quote_delay, wait_time, mexit>>

\* the computations of one currency, applied to inputs drawn at large
VARIABLES
    calc_in,    \* the quote, the stored rate and the spread drawn
    calc_out,   \* what lines 114-211 of get_rates compute from them
    calc_mon,   \* the colour lines 127-132 of exchange.py give them
    calc_norm,  \* the quote as a Python value, and its conversions to Decimal
    calc_fmt    \* the quote rendered for a code in USD_FIRST and for one not

cvars == <<calc_in, calc_out, calc_mon, calc_norm, calc_fmt>>

\* src/lambda.py: the Lambda function without the table
VARIABLES
    v_pc,      \* where build_resp is: off, idle, returned, raised
    v_rates,   \* what cl_validate returned: an error string or the dict
    v_html,    \* the rate_html get_rates built
    v_exc      \* the exception that left build_resp

vvars == <<v_pc, v_rates, v_html, v_exc>>

Handlers == {1, 2}

Abbrs == {"EUR", "JPY"}

\* a pair code such as USDEUR, as its two halves
Pair(abbr) == <<"USD", abbr>>

\* exch[-3:] (and exch[3:], the same three letters of a six-letter code)
AbbrOf(exch) == exch[2]

\* self.cl_ts = 12345678
InitClTs == 12345678

\* the Tstamp of the table rows as init_dynamo_table.py left them
\* (the example rows of the table comment)
T0 == 1545828846

\* 24*60*60
DaySecs == 24 * 60 * 60

\* a batch twelve days later: an age of seven digits, which line 211 rounds
FarGap == 12 * DaySecs + 5

\* An attribute of a table item as boto3 returns it: a number (a Decimal) or
\* a string.
NumAttr(d) == [t |-> "N", d |-> d, s |-> ""]
StrAttr(s) == [t |-> "S", d |-> DecZero, s |-> s]

\* old == '0.0': a Decimal never equals a str
PyEqStr(v, s) == v.t = "S" /\ v.s = s

\* Decimal(old): of a Decimal, the same number; of the string '0.0', zero
DecimalOf(v) == IF v.t = "N" THEN v.d ELSE DecZero

\* a number of the provider's JSON text, <<digits, exponent>> as written
\* (1.10 is <<110, -2>>); json.loads makes it a float
JsonNum(c, e) == <<c, e>>

\* lines 154-155: Decimal(str(cur_rate)); str() of a float is its shortest
\* decimal form, which for the provider's 6..15 digit numbers is the
\* number as written without trailing zeros
ToDecimal(cur_rate) == Norm(cur_rate[1], cur_rate[2])

\* line 114: spread = spread / 100
SpreadFraction(api_spread) == DecDiv(api_spread, DecInt(100))

\* 1/cur_rate
UsdPerForeign(cur_rate) == DecDiv(DecOne, cur_rate)

\* line 165: usd_spread = (1/cur_rate)*(1+spread)
UsdSpread(cur_rate, sp) == DecMul(DecDiv(DecOne, cur_rate), DecAdd(DecOne, sp))

\* line 166 with the spread left out: the mid rate itself
ForSpreadNoMargin(cur_rate, sp) == cur_rate

\* line 166: for_spread = cur_rate*(1/(1+spread))
ForSpread(cur_rate, sp) == DecMul(cur_rate, DecDiv(DecOne, DecAdd(DecOne, sp)))

\* line 186: old_rate = cur_rate if (old == '0.0') else Decimal(old)
OldRate(cur_rate, old) ==
    IF PyEqStr(old, "0.0") THEN cur_rate ELSE DecimalOf(old)

\* line 188 with the operands of the subtraction exchanged
ChangePctInverted(cur_rate, old_rate) ==
    DecMul(DecSub(DecDiv(cur_rate, old_rate), DecOne), DecInt(100))

\* line 188: change_pct = (1 - (cur_rate / old_rate)) * 100
ChangePct(cur_rate, old_rate) ==
    DecMul(DecSub(DecOne, DecDiv(cur_rate, old_rate)), DecInt(100))

\* change_pct >= 0.1 and change_pct <= -0.1 compare a Decimal with the
\* binary float 0.1 = 0.1000000000000000055511151231257827..., exactly: a
\* Decimal of at most 17 digits is >= that float iff it is > 1/10, and
\* <= -0.1 (float) iff it is < -1/10.
GeFloatTenth(d) == DecGt(d, Dec(1, -1))
LeFloatNegTenth(d) == DecLt(d, Dec(-1, -1))

\* lines 195-200
Color(change_pct) ==
    IF GeFloatTenth(change_pct) THEN "red"
    ELSE IF LeFloatNegTenth(change_pct) THEN "green"
    ELSE "white"

\* line 211: time_delta = Decimal(self.cl_ts - Decimal(tstamp))
TimeDelta(ts, tstamp) == DecSub(DecInt(ts), tstamp)

\* lines 215-218 without the test: dynamo_update is called for every item
IsStaleAlways(time_delta) == TRUE

\* the comparison of line 215 with >= in place of >
IsStaleAtDay(time_delta) == DecGe(time_delta, DecInt(DaySecs))

\* line 215: time_delta > (24*60*60)
IsStale(time_delta) == DecGt(time_delta, DecInt(DaySecs))

\* line 171: exch[3:] in USD_FIRST (the list of src/lambda.py:93)
USD_FIRST == {"EUR", "GBP", "AUD", "BTC"}

\* the locals of one iteration of the loop of line 141
NoLoc ==
    [abbr |-> "", old |-> StrAttr(""), tstamp |-> DecZero,
     cur_rate |-> DecZero, usd_spread |-> DecZero, for_spread |-> DecZero,
     old_rate |-> DecZero, change_pct |-> DecZero, color |-> "",
     time_delta |-> DecZero, ran |-> FALSE]

\* lines 143-211 for one item, given the row dynamo_query returned
Locals(exch, num, row, sp, ts) ==
    LET cur == ToDecimal(num)
        old_rate == OldRate(cur, row.Rate)
        change_pct == ChangePct(cur, old_rate)
    IN  [abbr |-> AbbrOf(exch), old |-> row.Rate, tstamp |-> row.Tstamp,
         cur_rate |-> cur, usd_spread |-> UsdSpread(cur, sp),
         for_spread |-> ForSpread(cur, sp), old_rate |-> old_rate,
         change_pct |-> change_pct, color |-> Color(change_pct),
         time_delta |-> TimeDelta(ts, row.Tstamp), ran |-> TRUE]

\* the <pre> line with the two rates exchanged for a code of USD_FIRST
PreSwapped(l) ==
    [abbr |-> l.abbr,
     first |-> IF l.abbr \in USD_FIRST THEN "in_usd" ELSE "in_for",
     usd |-> IF l.abbr \in USD_FIRST THEN Quantize(l.cur_rate, 4)
             ELSE Quantize(UsdPerForeign(l.cur_rate), 4),
     usd_spread |-> Quantize(l.usd_spread, 4),
     for |-> IF l.abbr \in USD_FIRST THEN Quantize(UsdPerForeign(l.cur_rate), 4)
             ELSE Quantize(l.cur_rate, 4),
     for_spread |-> Quantize(l.for_spread, 4),
     since |-> l.tstamp,
     color |-> l.color,
     pct |-> Quantize(DecAbs(l.change_pct), 2)]

\* lines 171-178 and 202-205: the <pre> element of one currency; the
\* numbers as the format specs print them (4 and 2 decimals)
Pre(l) ==
    [abbr |-> l.abbr,
     first |-> IF l.abbr \in USD_FIRST THEN "in_usd" ELSE "in_for",
     usd |-> Quantize(UsdPerForeign(l.cur_rate), 4),
     usd_spread |-> Quantize(l.usd_spread, 4),
     for |-> Quantize(l.cur_rate, 4),
     for_spread |-> Quantize(l.for_spread, 4),
     since |-> l.tstamp,
     color |-> l.color,
     pct |-> Quantize(DecAbs(l.change_pct), 2)]

\* ------------------------------------------------------------------------
\* src/currency_lambda.py: the inputs drawn
\* ------------------------------------------------------------------------

\* quotes of USDEUR: 0.9990 (0.1 percent under 1), 1.0005 and 1.10
EurQuotes == {JsonNum(9990, -4), JsonNum(10005, -4), JsonNum(110, -2)}

\* quotes of USDJPY: a nine digit rate, and a zero rate
JpyQuotes == {JsonNum(107949718, -6), JsonNum(0, 0)}

Quotes(abbr) == IF abbr = "EUR" THEN EurQuotes ELSE JpyQuotes

Items == UNION {{<<Pair(a), q>> : q \in Quotes(a)} : a \in Abbrs}

\* rate_dict['quotes']: an ordered dict, one item per currency of the basket
QuoteTables ==
    {t \in UNION {[1..n -> Items] : n \in 1..Cardinality(Abbrs)} :
        \A i, j \in DOMAIN t : i # j => t[i][1] # t[j][1]}

\* rate_dict['timestamp']
BatchTimes ==
    {T0 + k * DaySecs + j : k \in 1..MaxDays, j \in 0..MaxSkew}
        \cup {T0 + FarGap}

Batches == [quotes : QuoteTables, timestamp : BatchTimes]

\* self.rate_dict = {}
EmptyDict == [quotes |-> <<>>, timestamp |-> 0]

\* the spread of the request, in percent ('spread': '1.00', line 504)
ApiSpreads == {Dec(100, -2)}

\* the Rate column as the table may hold it when a cycle starts: the
\* string '0.0' get_rates looks for, a Decimal zero (the schema's type), or
\* a rate init_dynamo_table.py stored
InitRates(abbr) ==
    IF abbr = "EUR"
    THEN {StrAttr("0.0"), NumAttr(DecZero), NumAttr(DecOne)}
    ELSE {StrAttr("0.0"), NumAttr(Dec(1075, -1))}

InitStores ==
    {st \in [Abbrs -> [Rate : UNION {InitRates(a) : a \in Abbrs},
                       Tstamp : {DecInt(T0)}]] :
        \A a \in Abbrs : st[a].Rate \in InitRates(a)}

\* ------------------------------------------------------------------------
\* src/currency_lambda.py: operations
\* ------------------------------------------------------------------------

\* an exception, and the expression or function that raised it
Exc(type, at) == [type |-> type, at |-> at]
NoExc == Exc("", "")

InitLambda ==
    /\ store \in InitStores
    /\ pc = [h \in Handlers |-> "idle"]
    /\ rate_dict = [h \in Handlers |-> EmptyDict]
    /\ cl_ts = [h \in Handlers |-> InitClTs]
    /\ spread = [h \in Handlers |-> DecZero]
    /\ todo = [h \in Handlers |-> <<>>]
    /\ loc = [h \in Handlers |-> NoLoc]
    /\ rate_html = [h \in Handlers |-> <<>>]
    /\ issued = [h \in Handlers |-> <<>>]
    /\ resp = [h \in Handlers |-> "none"]
    /\ exc = [h \in Handlers |-> NoExc]


\* an exception leaves get_rates, build_resp and lambda_handler: none of
\* them catches it (get_rates is called in the else branch of line 405)
Raise(h, e) ==
    /\ pc' = [pc EXCEPT ![h] = "raised"]
    /\ exc' = [exc EXCEPT ![h] = e]
    /\ resp' = [resp EXCEPT ![h] = "none"]

\* lines 399-407 with get_rates called after the try statement, not in its
\* else branch
AfterValidateAlways(ok) == "for"

\* lines 399-407: when cl_validate raised, the except branch adds the error
\* headings and get_rates is not called; else get_rates runs
AfterValidate(ok) == IF ok THEN "for" ELSE "returned"

\* lambda_handler / build_resp, lines 352-407, up to the for loop of
\* get_rates
BuildResp(h) ==
    /\ h \in live
    /\ pc[h] = "idle"
    /\ UNCHANGED <<store, live, loc, rate_html, issued>>
    /\ \/ \* fetch_html (lines 382, 390) cannot open an asset: urlopen raises
          /\ Raise(h, Exc("URLError", "fetch_html"))
          /\ rate_dict' = [rate_dict EXCEPT ![h] = EmptyDict]
          /\ cl_ts' = [cl_ts EXCEPT ![h] = InitClTs]
          /\ UNCHANGED <<spread, todo>>
       \/ \* cl_validate raises (urlopen failed, or success is False):
          \* lines 402-404 put the error headings in the page
          /\ pc' = [pc EXCEPT ![h] = AfterValidate(FALSE)]
          /\ resp' = [resp EXCEPT ![h] = "error"]
          /\ exc' = [exc EXCEPT ![h] = NoExc]
          /\ rate_dict' = [rate_dict EXCEPT ![h] = EmptyDict]
          /\ cl_ts' = [cl_ts EXCEPT ![h] = InitClTs]
          /\ UNCHANGED <<spread, todo>>
       \/ \* cl_validate loads a batch; get_rates starts (lines 99-141)
          \E b \in Batches, api_spread \in ApiSpreads :
            /\ pc' = [pc EXCEPT ![h] = AfterValidate(TRUE)]
            /\ resp' = [resp EXCEPT ![h] = "none"]
            /\ exc' = [exc EXCEPT ![h] = NoExc]
            /\ rate_dict' = [rate_dict EXCEPT ![h] = b]
            /\ cl_ts' = [cl_ts EXCEPT ![h] = b.timestamp]
            /\ spread' = [spread EXCEPT ![h] = SpreadFraction(api_spread)]
            /\ todo' = [todo EXCEPT ![h] = b.quotes]
    /\ UNCHANGED <<mvars, cvars, vvars>>

\* the loop of line 141 moves to its next item, or get_rates returns and
\* build_resp returns the page (lines 220-222, 409-480)
Advance(h) ==
    /\ todo' = [todo EXCEPT ![h] = Tail(todo[h])]
    /\ IF Len(todo[h]) > 1
       THEN /\ pc' = [pc EXCEPT ![h] = "for"]
            /\ UNCHANGED resp
       ELSE /\ pc' = [pc EXCEPT ![h] = "returned"]
            /\ resp' = [resp EXCEPT ![h] = "page"]
    /\ UNCHANGED exc

\* dynamo_query, lines 315-330, when get_item raises: the except clause
\* formats `response`, which was never bound
DynamoQueryFault == Exc("UnboundLocalError", "dynamo_query")

\* dynamo_update, lines 294-312, when update_item raises: the except clause
\* formats `response`, which was never bound
DynamoUpdateFault == Exc("UnboundLocalError", "dynamo_update")

\* one iteration of the loop of line 141, lines 143-218, up to the call of
\* dynamo_update
Iterate(h) ==
    /\ h \in live
    /\ pc[h] = "for"
    /\ LET exch == Head(todo[h])[1]
           num == Head(todo[h])[2]
           row == store[AbbrOf(exch)]
           cur == ToDecimal(num)
           l == Locals(exch, num, row, spread[h], cl_ts[h])
       IN  \/ \* line 147: get_item raises
              /\ Raise(h, DynamoQueryFault)
              /\ loc' = [loc EXCEPT ![h] = NoLoc]
              /\ UNCHANGED <<todo, rate_html>>
           \/ \* line 165: 1/cur_rate with a zero quote
              /\ IsZero(cur)
              /\ Raise(h, Exc("DivisionByZero", "1/cur_rate"))
              /\ loc' = [loc EXCEPT ![h] = NoLoc]
              /\ UNCHANGED <<todo, rate_html>>
           \/ \* line 188: cur_rate / old_rate with a zero old_rate
              /\ ~IsZero(cur)
              /\ IsZero(OldRate(cur, row.Rate))
              /\ Raise(h, Exc("DivisionByZero", "cur_rate/old_rate"))
              /\ loc' = [loc EXCEPT ![h] = NoLoc]
              /\ UNCHANGED <<todo, rate_html>>
           \/ \* the record is rendered; the row is stale: line 216 is next
              /\ ~IsZero(cur)
              /\ ~IsZero(OldRate(cur, row.Rate))
              /\ IsStale(l.time_delta)
              /\ loc' = [loc EXCEPT ![h] = l]
              /\ rate_html' = [rate_html EXCEPT ![h] = Append(@, Pre(l))]
              /\ pc' = [pc EXCEPT ![h] = "update"]
              /\ UNCHANGED <<todo, resp, exc>>
           \/ \* the record is rendered; the row is fresh: line 218
              /\ ~IsZero(cur)
              /\ ~IsZero(OldRate(cur, row.Rate))
              /\ ~IsStale(l.time_delta)
              /\ loc' = [loc EXCEPT ![h] = l]
              /\ rate_html' = [rate_html EXCEPT ![h] = Append(@, Pre(l))]
              /\ Advance(h)
    /\ UNCHANGED <<store, live, rate_dict, cl_ts, spread, issued>>
    /\ UNCHANGED <<mvars, cvars, vvars>>

\* the item update_item writes: SET Rate = :r, Tstamp = :t (lines 300-307)
UpdatedRow(rate, tstamp) == [Rate |-> NumAttr(rate), Tstamp |-> DecInt(tstamp)]

\* line 216 with an UpdateExpression that sets Rate alone: the row keeps
\* the Tstamp it had
UpdateRateOnly(h) ==
    /\ h \in live
    /\ pc[h] = "update"
    /\ LET Call(ok) == [abbr |-> loc[h].abbr, rate |-> loc[h].cur_rate,
                        tstamp |-> cl_ts[h], ok |-> ok]
       IN  \/ /\ store' = [store EXCEPT ![loc[h].abbr].Rate =
                              NumAttr(loc[h].cur_rate)]
              /\ issued' = [issued EXCEPT ![h] = Append(@, Call(TRUE))]
              /\ Advance(h)
           \/ /\ issued' = [issued EXCEPT ![h] = Append(@, Call(FALSE))]
              /\ Raise(h, DynamoUpdateFault)
              /\ UNCHANGED <<store, todo>>
    /\ UNCHANGED <<live, rate_dict, cl_ts, spread, loc, rate_html>>
    /\ UNCHANGED <<mvars, cvars, vvars>>

\* line 216: dynamo_update(table, abbr, cur_rate, self.cl_ts), lines 294-312
Update(h) ==
    /\ h \in live
    /\ pc[h] = "update"
    /\ LET Call(ok) == [abbr |-> loc[h].abbr, rate |-> loc[h].cur_rate,
                        tstamp |-> cl_ts[h], ok |-> ok]
       IN  \/ \* update_item succeeds
              /\ store' = [store EXCEPT ![loc[h].abbr] =
                              UpdatedRow(loc[h].cur_rate, cl_ts[h])]
              /\ issued' = [issued EXCEPT ![h] = Append(@, Call(TRUE))]
              /\ Advance(h)
           \/ \* update_item raises
              /\ issued' = [issued EXCEPT ![h] = Append(@, Call(FALSE))]
              /\ Raise(h, DynamoUpdateFault)
              /\ UNCHANGED <<store, todo>>
    /\ UNCHANGED <<live, rate_dict, cl_ts, spread, loc, rate_html>>
    /\ UNCHANGED <<mvars, cvars, vvars>>

\* the invocation is over: the response (or the fault) has gone to the
\* caller and nothing of the request's objects is kept
Done(h) ==
    /\ h \in live
    /\ pc[h] \in {"returned", "raised"}
    /\ pc' = [pc EXCEPT ![h] = "idle"]
    /\ rate_dict' = [rate_dict EXCEPT ![h] = EmptyDict]
    /\ cl_ts' = [cl_ts EXCEPT ![h] = InitClTs]
    /\ spread' = [spread EXCEPT ![h] = DecZero]
    /\ todo' = [todo EXCEPT ![h] = <<>>]
    /\ loc' = [loc EXCEPT ![h] = NoLoc]
    /\ rate_html' = [rate_html EXCEPT ![h] = <<>>]
    /\ issued' = [issued EXCEPT ![h] = <<>>]
    /\ resp' = [resp EXCEPT ![h] = "none"]
    /\ exc' = [exc EXCEPT ![h] = NoExc]
    /\ UNCHANGED <<store, live>>
    /\ UNCHANGED <<mvars, cvars, vvars>>

NextLambda ==
    \E h \in Handlers : BuildResp(h) \/ Iterate(h) \/ Update(h) \/ Done(h)

\* ------------------------------------------------------------------------
\* src/exchange.py: the console monitor
\* ------------------------------------------------------------------------

\* interval = 60 (minutes)
Interval == 60

MonAbbrs == {"EUR", "GBP"}

\* the rates the provider quotes: 1.0, 1.0005 (0.05 percent more), 1.1
MonQuotes == {JsonNum(10, -1), JsonNum(10005, -4), JsonNum(11, -1)}

\* the "quotes" object of a response: its members in the order sent
MonTables ==
    {t \in UNION {[1..n -> {<<Pair(a), q>> : a \in MonAbbrs, q \in MonQuotes}] :
                     n \in 1..Cardinality(MonAbbrs)} :
        \A i, j \in DOMAIN t : i # j => t[i][1] # t[j][1]}

\* seconds from the quote's timestamp to time() (line 95)
MonElapsed == {0, 1830, 3600, 5400}

\* json.loads of a number with a fraction: the float of that value
ToFloat(num) == Norm(num[1], num[2])

\* loads(...)['quotes']: a dict in the order of the text (lines 63-64)
ParseQuotes(t) == [i \in DOMAIN t |-> <<t[i][1], ToFloat(t[i][2])>>]

\* str(rates['quotes']): the items in the dict's order, each float as its
\* repr, which is one text per value
PyStr(q) == [i \in DOMAIN q |-> <<q[i][1], q[i][2]>>]

\* sha1(...).hexdigest(): equal texts give equal digests, and different
\* texts are taken to give different ones
Sha1(text) == <<"sha1", text>>

\* line 91
QuoteHash(q) == Sha1(PyStr(q))

NoHash == <<"sha1", <<>>>>

Keys(q) == {q[i][1] : i \in DOMAIN q}

\* prev_quote[exch]
Lookup(q, exch) == (CHOOSE i \in DOMAIN q : q[i][1] = exch)

ValueOf(q, exch) == q[Lookup(q, exch)][2]

\* lines 127-132 if the monitor used the rule of get_rates (lines 188-200
\* of currency_lambda.py): a move under 0.1 percent is no change
MonitorColorTolerant(cur_rate, prev_rate) ==
    IF Color(ChangePct(cur_rate, prev_rate)) = "white" THEN "yellow"
    ELSE Color(ChangePct(cur_rate, prev_rate))

\* lines 127-132
MonitorColor(cur_rate, prev_rate) ==
    IF DecCmp(cur_rate, prev_rate) = 0 THEN "yellow"
    ELSE IF DecCmp(cur_rate, prev_rate) > 0 THEN "green"
    ELSE "red"

\* lines 142-143 if the new table were merged into the old one: the old
\* items, each with its new rate where the new table has one
MergePoll(old_quote, new_quote) ==
    [i \in DOMAIN old_quote |->
        IF old_quote[i][1] \in Keys(new_quote)
        THEN <<old_quote[i][1], ValueOf(new_quote, old_quote[i][1])>>
        ELSE old_quote[i]]

\* lines 142-143: the PollState after a change was shown
ReplacePoll(old_quote, new_quote) == new_quote

\* the line lines 123-139 print for item i of q
MonitorLine(q, i, prev) ==
    [exch |-> q[i][1], cur_rate |-> q[i][2],
     prev_rate |-> ValueOf(prev, q[i][1]),
     color |-> MonitorColor(q[i][2], ValueOf(prev, q[i][1]))]

\* the items of q before the first one prev_quote has no entry for
Printable(q, prev) ==
    IF \A i \in DOMAIN q : q[i][1] \in Keys(prev) THEN Len(q)
    ELSE (CHOOSE i \in DOMAIN q :
             /\ q[i][1] \notin Keys(prev)
             /\ \A j \in 1..(i - 1) : q[j][1] \in Keys(prev)) - 1

\* line 149 without abs()
WaitTimeSigned(interval, elapsed) == (interval * 60 - elapsed) \div 60

\* line 149: wait_time = int(abs(interval - quote_delay)), quote_delay
\* being elapsed / 60
WaitTime(interval, elapsed) == Abs(interval * 60 - elapsed) \div 60

InitMonitor ==
    /\ mpc = "fetch"
    /\ first_pass = TRUE
    /\ prev_hash = NoHash
    /\ prev_quote = <<>>
    /\ rates = [quotes |-> <<>>, timestamp |-> 0]
    /\ quote_hash = NoHash
    /\ shown = [kind |-> "none", lines |-> <<>>]
    /\ displayed = <<>>
    /\ quote_delay = 0
    /\ wait_time = 0
    /\ mexit = ""

\* line 88: self.get_rates(self.cl_url), lines 50-74
MFetch ==
    /\ mpc = "fetch"
    /\ \/ \* urlopen fails, or success is False: SystemExit
          /\ mpc' = "exited"
          /\ mexit' = "SystemExit"
          /\ UNCHANGED rates
       \/ \E t \in MonTables :
            /\ rates' = [quotes |-> ParseQuotes(t), timestamp |-> T0]
            /\ mpc' = "fetched"
            /\ UNCHANGED mexit
    /\ UNCHANGED <<first_pass, prev_hash, prev_quote, quote_hash, shown,
                   displayed, quote_delay, wait_time>>
    /\ UNCHANGED <<lvars, cvars, vvars>>

\* lines 91-151, up to the call of tbar_sleep
MProcess ==
    /\ mpc = "fetched"
    /\ quote_hash' = QuoteHash(rates.quotes)
    /\ \E el \in MonElapsed : quote_delay' = el
    /\ UNCHANGED rates
    /\ \/ \* lines 99-113: the first pass shows the rates and loops at once
          /\ first_pass
          /\ first_pass' = FALSE
          /\ prev_hash' = QuoteHash(rates.quotes)
          /\ prev_quote' = rates.quotes
          /\ shown' = [kind |-> "first", lines |-> <<>>]
          /\ displayed' = rates.quotes
          /\ mpc' = "fetch"
          /\ UNCHANGED <<wait_time, mexit>>
       \/ \* lines 119-143: the hash differs, every item has a previous rate
          /\ ~first_pass
          /\ QuoteHash(rates.quotes) # prev_hash
          /\ Printable(rates.quotes, prev_quote) = Len(rates.quotes)
          /\ shown' = [kind |-> "changed",
                       lines |-> [i \in DOMAIN rates.quotes |->
                                    MonitorLine(rates.quotes, i, prev_quote)]]
          /\ displayed' = rates.quotes
          /\ prev_hash' = QuoteHash(rates.quotes)
          /\ prev_quote' = ReplacePoll(prev_quote, rates.quotes)
          /\ wait_time' = WaitTime(Interval, quote_delay')
          /\ mpc' = "sleep"
          /\ UNCHANGED <<first_pass, mexit>>
       \/ \* line 124: the hash differs, prev_quote[exch] raises KeyError
          /\ ~first_pass
          /\ QuoteHash(rates.quotes) # prev_hash
          /\ Printable(rates.quotes, prev_quote) < Len(rates.quotes)
          /\ shown' = [kind |-> "changed",
                       lines |-> [i \in 1..Printable(rates.quotes, prev_quote)
                                    |-> MonitorLine(rates.quotes, i, prev_quote)]]
          /\ mpc' = "exited"
          /\ mexit' = "KeyError"
          /\ UNCHANGED <<first_pass, prev_hash, prev_quote, displayed,
                         wait_time>>
       \/ \* the hash is the same: only the wait is printed
          /\ ~first_pass
          /\ QuoteHash(rates.quotes) = prev_hash
          /\ shown' = [kind |-> "nochange", lines |-> <<>>]
          /\ wait_time' = WaitTime(Interval, quote_delay')
          /\ mpc' = "sleep"
          /\ UNCHANGED <<first_pass, prev_hash, prev_quote, displayed, mexit>>
    /\ UNCHANGED <<lvars, cvars, vvars>>

\* line 151: tbar_sleep(wait_time), lines 161-170
MSleep ==
    /\ mpc = "sleep"
    /\ mpc' = "fetch"
    /\ UNCHANGED <<first_pass, prev_hash, prev_quote, rates, quote_hash,
                   shown, displayed, quote_delay, wait_time, mexit>>
    /\ UNCHANGED <<lvars, cvars, vvars>>

\* signal_handler returning instead of raising: the loop goes on where it was
SignalHandlerReturns(at) == at

\* lines 173-176: signal_handler prints and raises SystemExit, which
\* nothing in monitor() or tbar_sleep catches; the bare except of get_rates
\* (line 59) catches it and raises SystemExit itself. `at` is where the
\* main thread was.
SignalHandler(at) == "exited"

\* SIGINT is delivered (line 206 installed signal_handler before main())
MSigint ==
    /\ mpc \in {"fetch", "fetched", "sleep"}
    /\ mpc' = SignalHandler(mpc)
    /\ mexit' = "SIGINT"
    /\ UNCHANGED <<first_pass, prev_hash, prev_quote, rates, quote_hash,
                   shown, displayed, quote_delay, wait_time>>
    /\ UNCHANGED <<lvars, cvars, vvars>>

NextMonitor == MFetch \/ MProcess \/ MSleep \/ MSigint

\* ------------------------------------------------------------------------
\* The computations of one currency, applied to inputs drawn at large
\* ------------------------------------------------------------------------

\* the grid of quotes around 1 is 1 + k/2000, k in -MaxStep..MaxStep
MaxStep == 4

\* min='.10' max='2.0' step='.05' (lines 108-109), in hundredths
SpreadMin == 10
SpreadMax == 200
SpreadStep == 5

SpreadRange ==
    {Dec(p, -2) : p \in {x \in SpreadMin..SpreadMax :
                            (x - SpreadMin) % SpreadStep = 0}}

\* a currency near parity: quotes 0.9980 .. 1.0020 in steps of 0.0005,
\* 0.9, 1.10, 1.000001 (seven digits) and 3, held against a sentinel, a
\* zero and some stored rates
CalcNearOne ==
    [cur_rate : {JsonNum((2000 + k) * 5, -4) : k \in -MaxStep..MaxStep}
                    \cup {JsonNum(9, -1), JsonNum(110, -2),
                          JsonNum(1000001, -6), JsonNum(3, 0)},
     old : {StrAttr("0.0"), NumAttr(DecZero), NumAttr(DecOne),
            NumAttr(Dec(999, -3)), NumAttr(Dec(11, -1))}]

\* a currency of three digits: nine digit quotes, and a zero quote
CalcHundreds ==
    [cur_rate : {JsonNum(107949718, -6), JsonNum(108, 0), JsonNum(0, 0)},
     old : {StrAttr("0.0"), NumAttr(Dec(1075, -1))}]

\* a currency worth thousands of dollars
CalcSmall ==
    [cur_rate : {JsonNum(262, -6), JsonNum(26, -5)},
     old : {StrAttr("0.0"), NumAttr(Dec(26, -5))}]

CalcCases == CalcNearOne \cup CalcHundreds \cup CalcSmall

NoOut == [state |-> "none", loc |-> NoLoc, fault |-> NoExc]

\* Python values a rate comes as: a float (of json.loads), an int, a str
\* (the digits and exponent as written, '1.10' is <<110, -2>>) or a Decimal
FloatVal(num) == [k |-> "float", d |-> ToFloat(num), text |-> <<0, 0>>]
IntVal(n) == [k |-> "int", d |-> DecInt(n), text |-> <<0, 0>>]
StrVal(num) == [k |-> "str", d |-> DecZero, text |-> num]
DecVal(d) == [k |-> "Decimal", d |-> d, text |-> <<0, 0>>]

\* str() of a float, an int or a str: a float as its shortest digits, with
\* '.0' when it is whole; an int as its digits; a str as it is
StrOther(x) ==
    IF x.k = "str" THEN x.text
    ELSE IF x.k = "float" /\ x.d.e >= 0
         THEN <<x.d.c * Pow10(x.d.e) * 10, -1>>
         ELSE <<x.d.c, x.d.e>>

\* str() if a Decimal were written as the display writes it, with four
\* decimals
StrFixed(x) ==
    IF x.k = "Decimal" THEN <<Quantize(x.d, 4), -4>> ELSE StrOther(x)

\* str(): of a Decimal, all its digits
Str(x) == IF x.k = "Decimal" THEN <<x.d.c, x.d.e>> ELSE StrOther(x)

\* Decimal(text): exactly the number written, whatever the precision of the
\* context
DecimalOfText(t) == Norm(t[1], t[2])

\* lines 154-155: if not isinstance(cur_rate, Decimal):
\*                    cur_rate = Decimal(str(cur_rate))
Normalize(x) == IF x.k = "Decimal" THEN x ELSE DecVal(DecimalOfText(Str(x)))

\* line 304: Decimal(str(rate))
StoreNormalize(x) == DecVal(DecimalOfText(Str(x)))

NoNorm == [x |-> IntVal(0), once |-> IntVal(0), twice |-> IntVal(0),
           stored |-> IntVal(0), restored |-> IntVal(0), done |-> FALSE]

\* the quote as the values it may come as
CalcValues(num) ==
    {FloatVal(num), StrVal(num), DecVal(ToDecimal(num))}
        \cup (IF num[2] = 0 THEN {IntVal(num[1])} ELSE {})

\* one currency as lines 143-218 treat it: its locals, its <pre> line and
\* whether line 215 calls dynamo_update
Treated(l) == [loc |-> l, pre |-> Pre(l), write |-> IsStale(l.time_delta)]

NoTreated ==
    [loc |-> NoLoc,
     pre |-> [abbr |-> "", first |-> "", usd |-> 0, usd_spread |-> 0, for |-> 0,
              for_spread |-> 0, since |-> DecZero, color |-> "", pct |-> 0],
     write |-> FALSE]

NoFmt == [listed |-> NoTreated, unlisted |-> NoTreated, done |-> FALSE]

InitCalc ==
    /\ calc_in \in [case : CalcCases, api_spread : SpreadRange]
    /\ calc_out = NoOut
    /\ calc_mon = ""
    /\ calc_norm = NoNorm
    /\ calc_fmt = NoFmt

\* get_rates, lines 114 and 154-211, for one item
CalcGetRates ==
    /\ calc_out.state = "none"
    /\ LET cur == ToDecimal(calc_in.case.cur_rate)
           row == [Rate |-> calc_in.case.old, Tstamp |-> DecInt(T0)]
       IN  calc_out' =
             IF IsZero(cur)
             THEN [state |-> "fault", loc |-> NoLoc,
                   fault |-> Exc("DivisionByZero", "1/cur_rate")]
             ELSE IF IsZero(OldRate(cur, row.Rate))
             THEN [state |-> "fault", loc |-> NoLoc,
                   fault |-> Exc("DivisionByZero", "cur_rate/old_rate")]
             ELSE [state |-> "ok",
                   loc |-> Locals(Pair("XXX"), calc_in.case.cur_rate, row,
                                  SpreadFraction(calc_in.api_spread),
                                  T0 + DaySecs),
                   fault |-> NoExc]
    /\ UNCHANGED <<calc_in, calc_mon, calc_norm, calc_fmt>>
    /\ UNCHANGED <<lvars, mvars, vvars>>

\* exchange.py, lines 127-132, for a quote and a previous quote
CalcMonitor ==
    /\ calc_mon = ""
    /\ calc_in.case.old.t = "N"
    /\ calc_mon' = MonitorColor(ToFloat(calc_in.case.cur_rate),
                                calc_in.case.old.d)
    /\ UNCHANGED <<calc_in, calc_out, calc_norm, calc_fmt>>
    /\ UNCHANGED <<lvars, mvars, vvars>>

\* lines 154-155 and line 304 applied to the quote as a Python value
CalcNormalize ==
    /\ ~calc_norm.done
    /\ \E x \in CalcValues(calc_in.case.cur_rate) :
          calc_norm' = [x |-> x,
                        once |-> Normalize(x),
                        twice |-> Normalize(Normalize(x)),
                        stored |-> StoreNormalize(Normalize(x)),
                        restored |-> StoreNormalize(StoreNormalize(Normalize(x))),
                        done |-> TRUE]
    /\ UNCHANGED <<calc_in, calc_out, calc_mon, calc_fmt>>
    /\ UNCHANGED <<lvars, mvars, vvars>>

\* lines 143-218 for the same quote, row and spread under a code of
\* USD_FIRST (EUR) and under one that is not (JPY), a day or a day and a
\* second after the row was saved
CalcOrientation ==
    /\ ~calc_fmt.done
    /\ ~IsZero(ToDecimal(calc_in.case.cur_rate))
    /\ ~IsZero(OldRate(ToDecimal(calc_in.case.cur_rate), calc_in.case.old))
    /\ \E ts \in {T0 + DaySecs, T0 + DaySecs + 1} :
          LET row == [Rate |-> calc_in.case.old, Tstamp |-> DecInt(T0)]
              sp == SpreadFraction(calc_in.api_spread)
          IN  calc_fmt' =
                [listed |-> Treated(Locals(Pair("EUR"), calc_in.case.cur_rate,
                                           row, sp, ts)),
                 unlisted |-> Treated(Locals(Pair("JPY"), calc_in.case.cur_rate,
                                             row, sp, ts)),
                 done |-> TRUE]
    /\ UNCHANGED <<calc_in, calc_out, calc_mon, calc_norm>>
    /\ UNCHANGED <<lvars, mvars, vvars>>

NextCalc == CalcGetRates \/ CalcMonitor \/ CalcNormalize \/ CalcOrientation

\* ------------------------------------------------------------------------
\* src/lambda.py: the Lambda function without the table
\* ------------------------------------------------------------------------

\* cl_validate's two kinds of result (lines 34-52)
ErrMsg == [kind |-> "str", quotes |-> <<>>, timestamp |-> 0]
RateDict(b) == [kind |-> "dict", quotes |-> b.quotes, timestamp |-> b.timestamp]

\* lines 60-61: rate_html = "<p>" + rates + "</p>"
ErrorFragment == <<[kind |-> "p_error", abbr |-> "", first |-> ""]>>

\* lines 81-96: the <pre> line of one quote; the numbers are floats and
\* are not kept
VLine(item) ==
    [kind |-> "pre", abbr |-> AbbrOf(item[1]),
     first |-> IF AbbrOf(item[1]) \in USD_FIRST THEN "in_usd" ELSE "in_for"]

InitVariant ==
    /\ v_pc = "idle"
    /\ v_rates = ErrMsg
    /\ v_html = <<>>
    /\ v_exc = NoExc

\* the function has not been invoked
IdleVariant ==
    /\ v_pc = "off"
    /\ v_rates = ErrMsg
    /\ v_html = <<>>
    /\ v_exc = NoExc

\* build_resp, lines 194-199, with get_rates, lines 54-101
VBuildResp ==
    /\ v_pc = "idle"
    /\ \/ \* cl_validate returns an error string: one <p> with the message
          /\ v_rates' = ErrMsg
          /\ v_html' = ErrorFragment
          /\ v_pc' = "returned"
          /\ v_exc' = NoExc
       \/ \E b \in Batches :
            /\ v_rates' = RateDict(b)
            /\ IF \E i \in DOMAIN b.quotes : IsZero(ToFloat(b.quotes[i][2]))
               THEN \* line 84: 1/cur_rate raises ZeroDivisionError
                    /\ v_html' = <<>>
                    /\ v_pc' = "raised"
                    /\ v_exc' = Exc("ZeroDivisionError", "1/cur_rate")
               ELSE /\ v_html' = [i \in DOMAIN b.quotes |-> VLine(b.quotes[i])]
                    /\ v_pc' = "returned"
                    /\ v_exc' = NoExc
    /\ UNCHANGED <<lvars, mvars, cvars>>

\* the invocation is over
VDone ==
    /\ v_pc \in {"returned", "raised"}
    /\ v_pc' = "idle"
    /\ v_rates' = ErrMsg
    /\ v_html' = <<>>
    /\ v_exc' = NoExc
    /\ UNCHANGED <<lvars, mvars, cvars>>

NextVariant == VBuildResp \/ VDone

\* ------------------------------------------------------------------------
\* Specifications
\* ------------------------------------------------------------------------

vars == <<lvars, mvars, cvars, vvars>>

IdleLambda == InitLambda /\ store = [a \in Abbrs |->
                 [Rate |-> StrAttr("0.0"), Tstamp |-> DecInt(T0)]] /\ live = {}

\* the monitor has not been started
IdleMonitor ==
    /\ mpc = "off"
    /\ first_pass = TRUE
    /\ prev_hash = NoHash
    /\ prev_quote = <<>>
    /\ rates = [quotes |-> <<>>, timestamp |-> 0]
    /\ quote_hash = NoHash
    /\ shown = [kind |-> "none", lines |-> <<>>]
    /\ displayed = <<>>
    /\ quote_delay = 0
    /\ wait_time = 0
    /\ mexit = ""

IdleCalc ==
    /\ calc_in = [case |-> [cur_rate |-> JsonNum(0, 0), old |-> StrAttr("0.0")],
                  api_spread |-> DecZero]
    /\ calc_out = NoOut
    /\ calc_mon = ""
    /\ calc_norm = NoNorm
    /\ calc_fmt = NoFmt

\* the Lambda function, one request at a time
Init == InitLambda /\ live = {1} /\ IdleMonitor /\ IdleCalc /\ IdleVariant

Next == NextLambda

Spec == Init /\ [][Next]_vars

\* the console monitor
InitM == InitMonitor /\ IdleLambda /\ IdleCalc /\ IdleVariant

NextM == NextMonitor

SpecMonitor == InitM /\ [][NextM]_vars

\* the computations of one currency
InitC == InitCalc /\ IdleLambda /\ IdleMonitor /\ IdleVariant

NextC == NextCalc

SpecCalc == InitC /\ [][NextC]_vars

\* the three programs, one of them started
InitP ==
    \/ InitLambda /\ live = {1} /\ IdleMonitor /\ IdleVariant /\ IdleCalc
    \/ IdleLambda /\ InitMonitor /\ IdleVariant /\ IdleCalc
    \/ IdleLambda /\ IdleMonitor /\ InitVariant /\ IdleCalc

NextP == NextLambda \/ NextMonitor \/ NextVariant

SpecPrograms == InitP /\ [][NextP]_vars

\* the batches of two simultaneous requests: every quote usable, the batch
\* more than a whole number of days after the rows were stored
RaceBatches ==
    {b \in Batches :
        /\ \A i \in DOMAIN b.quotes : ~IsZero(ToDecimal(b.quotes[i][2]))
        /\ \E k \in 1..MaxDays : b.timestamp = T0 + k * DaySecs + MaxSkew}

\* two invocations of lambda_handler at once, each with its own
\* CurrencyLayer object and its own batch, both about to enter the loop of
\* line 141 (build_resp has run up to line 407 in each); they share the table
InitRace ==
    /\ store \in InitStores
    /\ live = Handlers
    /\ rate_dict \in [Handlers -> RaceBatches]
    /\ pc = [h \in Handlers |-> AfterValidate(TRUE)]
    /\ cl_ts = [h \in Handlers |-> rate_dict[h].timestamp]
    /\ spread \in {[h \in Handlers |-> SpreadFraction(a)] : a \in ApiSpreads}
    /\ todo = [h \in Handlers |-> rate_dict[h].quotes]
    /\ loc = [h \in Handlers |-> NoLoc]
    /\ rate_html = [h \in Handlers |-> <<>>]
    /\ issued = [h \in Handlers |-> <<>>]
    /\ resp = [h \in Handlers |-> "none"]
    /\ exc = [h \in Handlers |-> NoExc]
    /\ IdleMonitor /\ IdleCalc /\ IdleVariant

\* the two loops run in any interleaving of their reads (Iterate) and
\* writes (Update) of the table
NextRace == \E h \in Handlers : Iterate(h) \/ Update(h)

SpecRace == InitRace /\ [][NextRace]_vars

\* a cycle has just loaded a batch whose first item is abbr, with a usable
\* quote and a timestamp more than a day after the rows were stored
Loaded(abbr) ==
    \E h \in live :
        /\ pc[h] = "for"
        /\ todo[h] = rate_dict[h].quotes
        /\ AbbrOf(Head(todo[h])[1]) = abbr
        /\ ~IsZero(ToDecimal(Head(todo[h])[2]))
        /\ cl_ts[h] - T0 > 86400

\* the loop of line 141 is at abbr, and lines 143-215 lead to line 216 if
\* get_item answers: the quote and the old rate are not zero, the row is
\* stale
ReadDue(abbr) ==
    \E h \in live :
        /\ pc[h] = "for"
        /\ AbbrOf(Head(todo[h])[1]) = abbr
        /\ ~IsZero(ToDecimal(Head(todo[h])[2]))
        /\ ~IsZero(OldRate(ToDecimal(Head(todo[h])[2]), store[abbr].Rate))
        /\ IsStale(TimeDelta(cl_ts[h], store[abbr].Tstamp))

\* the loop is at line 216 for abbr
WriteDue(abbr) == \E h \in live : pc[h] = "update" /\ loc[h].abbr = abbr

\* update_item succeeds for abbr
WriteOk(abbr) ==
    \E h \in live :
        /\ Update(h)
        /\ loc[h].abbr = abbr
        /\ pc'[h] # "raised"

\* requests keep coming, one at a time, and the services answer in the end.
\* For every currency: again and again a batch with a usable quote of it
\* arrives; a read of the table that is due again and again succeeds in the
\* end (strong fairness of the stale branch of Iterate, its enabling
\* condition ReadDue and its effect WriteDue written out); and so does a
\* write that is due again and again.
Retrying ==
    /\ WF_vars(Next)
    /\ \A a \in Abbrs :
          /\ []<>Loaded(a)
          /\ []<>ReadDue(a) => []<>WriteDue(a)
          /\ SF_vars(WriteOk(a))

SpecRetry == Init /\ [][Next]_vars /\ Retrying

\* ------------------------------------------------------------------------
\* Properties of src/currency_lambda.py (under Spec)
\* ------------------------------------------------------------------------

\* a stored number as an integer
IntOf(d) == d.c * Pow10(d.e)

\* the Rate of a row that says "never observed": the string '0.0', or a
\* number equal to zero
IsSentinel(v) == PyEqStr(v, "0.0") \/ (v.t = "N" /\ IsZero(v.d))

\* the item get_rates is at when handler h raised
ItemAt(h) == Head(todo[h])

\* the quote of abbr in the batch of handler h
QuoteOf(h, abbr) ==
    LET q == rate_dict[h].quotes
    IN  ToDecimal(q[CHOOSE i \in DOMAIN q : AbbrOf(q[i][1]) = abbr][2])

\* the writes handler h has issued for abbr in this cycle
CallsFor(h, abbr) == {k \in DOMAIN issued[h] : issued[h][k].abbr = abbr}

\* C1: for every currency whose stored rate is the sentinel (zero, never
\* observed), get_rates puts the current rate in place of the previous one:
\* change_pct is exactly 0, the colour is the uncoloured one, and the
\* division of line 188 raises nothing.
C1_SentinelSubstituted ==
    \A h \in live :
        /\ (loc[h].ran /\ IsSentinel(loc[h].old)) =>
              /\ loc[h].old_rate = loc[h].cur_rate
              /\ IsZero(loc[h].change_pct)
              /\ loc[h].color = "white"
        /\ (pc[h] = "raised" /\ exc[h].at = "cur_rate/old_rate") =>
              ~IsSentinel(store[AbbrOf(ItemAt(h)[1])].Rate)

\* C2: for every currency a cycle has processed, a write to the table was
\* issued if and only if age = cl_ts - Tstamp is more than 86400 seconds;
\* the write carries the currency, its current rate and cl_ts, and a
\* currency of age 86400 or less keeps its row as it was read.
C2_WriteIffStale ==
    \A h \in live :
        /\ \A i \in DOMAIN rate_html[h] :
              LET r == rate_html[h][i]
                  age == cl_ts[h] - IntOf(r.since)
                  pending == pc[h] = "update" /\ i = Len(rate_html[h])
              IN  /\ (age > 86400) <=> (pending \/ CallsFor(h, r.abbr) # {})
                  /\ Cardinality(CallsFor(h, r.abbr)) <= 1
                  /\ \A k \in CallsFor(h, r.abbr) :
                        /\ issued[h][k].rate = QuoteOf(h, r.abbr)
                        /\ issued[h][k].tstamp = cl_ts[h]
        /\ (loc[h].ran /\ pc[h] \in {"for", "returned"}) =>
              LET l == loc[h]
                  age == cl_ts[h] - IntOf(l.tstamp)
              IN  /\ (age <= 86400) =>
                        store[l.abbr] = [Rate |-> l.old, Tstamp |-> l.tstamp]
                  /\ (age >= 86401) =>
                        store[l.abbr] = UpdatedRow(l.cur_rate, cl_ts[h])

\* a cycle has returned whose last currency was exactly 86400 seconds old
\* and got no write, after another currency of the same cycle, older than
\* that, got one
C2_DayOldNotWritten ==
    \E h \in live :
        /\ pc[h] = "returned"
        /\ loc[h].ran
        /\ cl_ts[h] - IntOf(loc[h].tstamp) = 86400
        /\ CallsFor(h, loc[h].abbr) = {}
        /\ store[loc[h].abbr].Tstamp = loc[h].tstamp
        /\ \E k \in DOMAIN issued[h] :
              /\ issued[h][k].ok
              /\ issued[h][k].tstamp = cl_ts[h]

\* C9: when the read of a currency's row fails, the cycle goes on with the
\* sentinel for that currency and no exception leaves get_rates.
C9_ReadFailureSwallowed ==
    \A h \in live : ~(pc[h] = "raised" /\ exc[h] = DynamoQueryFault)

\* C10: when the write of a currency's row fails, dynamo_update logs it and
\* returns: no exception leaves get_rates because of the failed write.
C10_WriteFailureSwallowed ==
    \A h \in live :
        (\E k \in DOMAIN issued[h] : ~issued[h][k].ok) => pc[h] # "raised"

\* the currencies of the batch of handler h
BatchAbbrs(h) ==
    {AbbrOf(rate_dict[h].quotes[i][1]) : i \in DOMAIN rate_dict[h].quotes}

\* the currencies handler h has a display record for
RenderedAbbrs(h) == {rate_html[h][i].abbr : i \in DOMAIN rate_html[h]}

\* the currencies of the batch of handler h whose quote is not zero
GoodAbbrs(h) ==
    {AbbrOf(rate_dict[h].quotes[i][1]) : i \in
        {j \in DOMAIN rate_dict[h].quotes :
            ~IsZero(ToDecimal(rate_dict[h].quotes[j][2]))}}

\* C11: a write that fails for one currency does not keep any other
\* currency of the cycle from its staleness check, its write and its display
\* record: when the cycle ends, every currency of the batch has its record.
C11_OthersStillProcessed ==
    \A h \in live :
        (pc[h] \in {"returned", "raised"} /\ exc[h] = DynamoUpdateFault) =>
            RenderedAbbrs(h) = BatchAbbrs(h)

\* C13: whatever fault occurs in fetching, reading, writing or computing,
\* build_resp returns a page with an error message: no exception leaves
\* lambda_handler.
C13_AlwaysRendersPage ==
    \A h \in live :
        /\ pc[h] # "raised"
        /\ pc[h] = "returned" => resp[h] \in {"page", "error"}

\* C14: a currency with a zero rate is skipped and reported, and every other
\* currency of the batch is still processed and rendered: the zero rate
\* never aborts the batch.
C14_BadEntrySkipped ==
    \A h \in live :
        /\ exc[h].at # "1/cur_rate"
        /\ (pc[h] = "returned" /\ resp[h] = "page") =>
              GoodAbbrs(h) \subseteq RenderedAbbrs(h)

\* the age line 211 would compute for abbr in the batch of handler h
AgeOf(h, abbr) == cl_ts[h] - IntOf(store[abbr].Tstamp)

\* C21: when a cycle on a batch is over and every write it issued
\* succeeded, every currency of the batch has a Tstamp not later than the
\* batch's timestamp and at most 86400 seconds before it: the same batch
\* run again finds nothing stale, issues no write and leaves the table as
\* it is.
C21_RerunWritesNothing ==
    \A h \in live :
        (/\ pc[h] \in {"returned", "raised"}
         /\ rate_dict[h] # EmptyDict
         /\ \A k \in DOMAIN issued[h] : issued[h][k].ok) =>
            \A a \in BatchAbbrs(h) : AgeOf(h, a) >= 0 /\ AgeOf(h, a) <= 86400

\* ------------------------------------------------------------------------
\* Properties of the computations (under SpecCalc)
\* ------------------------------------------------------------------------

CalcCur == ToDecimal(calc_in.case.cur_rate)

CalcPrev == calc_in.case.old.d

CalcNumeric == calc_out.state = "ok" /\ calc_in.case.old.t = "N"

\* C3: change_pct >= 0.1 is coloured weakened (red), change_pct <= -0.1
\* strengthened (green), anything strictly between uncoloured; 0.1 and -0.1
\* themselves are coloured.
C3_BoundaryBuckets ==
    calc_out.state = "ok" =>
        LET p == calc_out.loc.change_pct
        IN  /\ DecGe(p, Dec(1, -1)) => calc_out.loc.color = "red"
            /\ DecLe(p, Dec(-1, -1)) => calc_out.loc.color = "green"
            /\ (DecLt(p, Dec(1, -1)) /\ DecGt(p, Dec(-1, -1))) =>
                  calc_out.loc.color = "white"

C5_SpreadDisadvantages ==
    calc_out.state = "ok" =>
        /\ DecGt(calc_out.loc.usd_spread, UsdPerForeign(calc_out.loc.cur_rate))
        /\ DecLt(calc_out.loc.for_spread, calc_out.loc.cur_rate)
        /\ DecGt(calc_out.loc.cur_rate, DecZero)

\* the smallest spread, 0.10 percent, has been applied to a nine digit rate
C5_SmallestSpread ==
    /\ calc_out.state = "ok"
    /\ calc_in.api_spread = Dec(10, -2)
    /\ calc_in.case.cur_rate = JsonNum(107949718, -6)
    /\ DecLt(calc_out.loc.for_spread, calc_out.loc.cur_rate)

\* C17: the conversion to Decimal is idempotent: converted once, a rate is
\* a Decimal of exactly the number given, and converting that again, by
\* lines 154-155 or by line 304, gives it back unchanged.
C17_NormalizeIdempotent ==
    calc_norm.done =>
        /\ calc_norm.once.k = "Decimal"
        /\ calc_norm.once.d = ToDecimal(calc_in.case.cur_rate)
        /\ calc_norm.twice = calc_norm.once
        /\ calc_norm.stored = calc_norm.once
        /\ calc_norm.restored = calc_norm.stored

\* a nine digit float has been converted, and converted again
C17_NineDigits ==
    /\ calc_norm.done
    /\ calc_norm.x = FloatVal(JsonNum(107949718, -6))
    /\ calc_norm.stored.d = Dec(107949718, -6)

\* C20: whether the code is in USD_FIRST changes only which direction
\* comes first in the line: for the same rate, row and spread the four
\* values, change_pct, the colour and the decision to write are the same.
C20_OrientationOnlyFormats ==
    calc_fmt.done =>
        LET a == calc_fmt.listed
            b == calc_fmt.unlisted
        IN  /\ a.pre.first = "in_usd"
            /\ b.pre.first = "in_for"
            /\ a.loc.cur_rate = b.loc.cur_rate
            /\ a.loc.usd_spread = b.loc.usd_spread
            /\ a.loc.for_spread = b.loc.for_spread
            /\ a.loc.change_pct = b.loc.change_pct
            /\ a.loc.color = b.loc.color
            /\ a.pre.usd = b.pre.usd
            /\ a.pre.usd_spread = b.pre.usd_spread
            /\ a.pre.for = b.pre.for
            /\ a.pre.for_spread = b.pre.for_spread
            /\ a.pre.pct = b.pre.pct
            /\ a.pre.color = b.pre.color
            /\ a.write = b.write

\* a quote of 1.10 against a stored 1, a day and a second old, has been
\* rendered both ways: written in both, 0.9091 dollars in both
C20_BothWays ==
    /\ calc_fmt.done
    /\ calc_fmt.listed.loc.cur_rate = Dec(11, -1)
    /\ calc_fmt.listed.write
    /\ calc_fmt.unlisted.write
    /\ calc_fmt.listed.pre.usd = 9091
    /\ calc_fmt.unlisted.pre.usd = 9091

\* ------------------------------------------------------------------------
\* Properties of src/exchange.py (under SpecMonitor)
\* ------------------------------------------------------------------------

\* the same pairs with the same rates, in whatever order
SameContent(a, b) ==
    {a[i] : i \in DOMAIN a} = {b[i] : i \in DOMAIN b}

\* the classifier of get_rates applied to a quote and a previous quote
Classify(cur_rate, prev_rate) == Color(ChangePct(cur_rate, prev_rate))

\* C6: whenever the fetched table has the content of the table displayed
\* last, the hashes are equal, the cycle (if the user does not interrupt
\* it) says "no change", no line per
\* currency is printed, and prev_hash and prev_quote stay as they are.
C6_SameContentNoChange ==
    [][(mpc = "fetched" /\ ~first_pass /\ SameContent(rates.quotes, displayed)
            /\ mexit' # "SIGINT")
          => /\ QuoteHash(rates.quotes) = prev_hash
             /\ shown'.kind = "nochange"
             /\ shown'.lines = <<>>
             /\ prev_hash' = prev_hash
             /\ prev_quote' = prev_quote]_vars

C8_EveryPairClassified ==
    /\ mexit # "KeyError"
    /\ (shown.kind = "changed" /\ mpc = "sleep") =>
          /\ Len(shown.lines) = Len(rates.quotes)
    /\ (shown.kind = "changed") =>
          \A i \in DOMAIN shown.lines :
              LET c == Classify(shown.lines[i].cur_rate, shown.lines[i].prev_rate)
              IN  shown.lines[i].color =
                      (IF c = "white" THEN "yellow" ELSE c)

\* C8, as the code has it: on a cycle whose hash differs the pairs of the
\* new table are taken in order; each pair the previous table holds gets a
\* line comparing its rate with the previous table's rate for it exactly
\* (equal: yellow, also for a pair that did not move; greater: green;
\* smaller: red; no tolerance, no sentinel), and the new table then
\* replaces the previous one. At the first pair the previous table does not
\* hold the lookup raises KeyError and the monitor ends, the previous table
\* kept. (A cycle the user interrupts with SIGINT prints nothing more.)
C8_ExactComparison ==
    [][(mpc = "fetched" /\ ~first_pass /\ QuoteHash(rates.quotes) # prev_hash
            /\ mexit' # "SIGINT")
          => LET q == rates.quotes
                 Known(i) == \E j \in DOMAIN prev_quote : prev_quote[j][1] = q[i][1]
                 lines == shown'.lines
             IN  /\ shown'.kind = "changed"
                 /\ Len(lines) <= Len(q)
                 /\ \A i \in DOMAIN lines :
                       /\ Known(i)
                       /\ lines[i].exch = q[i][1]
                       /\ lines[i].cur_rate = q[i][2]
                       /\ \E j \in DOMAIN prev_quote :
                             /\ prev_quote[j][1] = q[i][1]
                             /\ prev_quote[j][2] = lines[i].prev_rate
                       /\ (lines[i].color = "yellow") <=>
                             (lines[i].cur_rate = lines[i].prev_rate)
                       /\ (lines[i].color = "green") <=>
                             DecGt(lines[i].cur_rate, lines[i].prev_rate)
                       /\ (lines[i].color = "red") <=>
                             DecLt(lines[i].cur_rate, lines[i].prev_rate)
                 /\ IF \A i \in DOMAIN q : Known(i)
                    THEN /\ Len(lines) = Len(q)
                         /\ mpc' = "sleep"
                         /\ prev_quote' = q
                    ELSE /\ Len(lines) < Len(q)
                         /\ ~Known(Len(lines) + 1)
                         /\ mpc' = "exited"
                         /\ mexit' = "KeyError"
                         /\ prev_quote' = prev_quote]_vars

\* a changed table of two pairs has been shown: one pair 0.05 percent up,
\* coloured green, the other where it was, coloured yellow
C8_SmallMoveColoured ==
    /\ shown.kind = "changed"
    /\ Len(shown.lines) = 2
    /\ \E i \in DOMAIN shown.lines :
          /\ shown.lines[i].prev_rate = DecOne
          /\ shown.lines[i].cur_rate = Dec(10005, -4)
          /\ shown.lines[i].color = "green"
    /\ \E i \in DOMAIN shown.lines :
          /\ shown.lines[i].prev_rate = shown.lines[i].cur_rate
          /\ shown.lines[i].color = "yellow"

\* C15 as stated: after each cycle, the first included, the loop suspends
\* for |interval - (now - timestamp)/60| minutes before the next fetch.
C15_SleepsAfterEveryCycle ==
    [][(mpc = "fetched" /\ mpc' # "exited") =>
          /\ mpc' = "sleep"
          /\ wait_time' * 60 = Abs(Interval * 60 - quote_delay')]_vars

\* C15, as the code has it: the first cycle shows the rates and goes
\* straight to the next fetch, with no suspension; every later cycle that
\* does not end the program suspends for int(|interval - (now -
\* timestamp)/60|) minutes, the value cut to whole minutes and never
\* negative; so a fetch follows either a suspension or the first cycle.
C15_SleepsAfterLaterCycles ==
    [][/\ (mpc = "fetched" /\ first_pass) =>
             /\ mpc' \in {"fetch", "exited"}
             /\ wait_time' = wait_time
       /\ (mpc = "fetched" /\ ~first_pass /\ mpc' # "exited") =>
             /\ mpc' = "sleep"
             /\ wait_time' >= 0
             /\ wait_time' * 60 <= Abs(Interval * 60 - quote_delay')
             /\ Abs(Interval * 60 - quote_delay') < (wait_time' + 1) * 60
       /\ (mpc' = "fetch" /\ mpc # "fetch") =>
             \/ mpc = "sleep"
             \/ mpc = "fetched" /\ first_pass]_vars

\* the monitor is suspended for 30 minutes after a cycle that came 90
\* minutes after its quote
C15_LateQuote ==
    /\ mpc = "sleep"
    /\ quote_delay = 5400
    /\ wait_time = 30

\* C16: once SIGINT is delivered, wherever the loop is, the monitor is
\* over: it fetches nothing more and nothing of its state changes again.
C16_InterruptEndsMonitor ==
    [][/\ (mexit' = "SIGINT" /\ mexit # "SIGINT") =>
             /\ mpc' = "exited"
             /\ rates' = rates
       /\ (mexit = "SIGINT") => UNCHANGED mvars]_vars

\* SIGINT has ended a monitor that had shown a change and was waiting, or
\* was about to fetch again
C16_InterruptedAfterChange ==
    /\ mexit = "SIGINT"
    /\ mpc = "exited"
    /\ shown.kind = "changed"
    /\ prev_quote = rates.quotes

\* ------------------------------------------------------------------------
\* Properties of the three programs (under SpecPrograms)
\* ------------------------------------------------------------------------

\* C12: when the fetch of the quotes fails or answers success false, the
\* cycle ends there: no currency is rendered, the table is neither read nor
\* written, and the caller gets one error indicator: the error headings
\* (currency_lambda.py), the one error paragraph (lambda.py), the exit of
\* the program (exchange.py).
C12_FetchFailureIsTerminal ==
    [][/\ \A h \in Handlers :
             (resp'[h] = "error" /\ resp[h] # "error") =>
                 /\ pc'[h] = "returned"
                 /\ exc'[h] = NoExc
                 /\ rate_html'[h] = <<>>
                 /\ issued'[h] = <<>>
                 /\ ~loc'[h].ran
                 /\ store' = store
       /\ \A h \in Handlers :
             (resp[h] = "error") => (pc[h] = "returned" /\ pc'[h] = "idle")
       /\ (mexit' = "SystemExit" /\ mexit = "") =>
             /\ mpc' = "exited"
             /\ shown' = shown
             /\ displayed' = displayed
             /\ rates' = rates
       /\ (mexit = "SystemExit") => UNCHANGED mvars
       /\ (v_pc = "idle" /\ v_rates'.kind = "str") =>
             /\ v_pc' = "returned"
             /\ v_html' = ErrorFragment
             /\ v_exc' = NoExc]_vars

\* a request has been answered with the error headings alone, the table as
\* it was
C12_ErrorPage ==
    \E h \in live :
        /\ resp[h] = "error"
        /\ pc[h] = "returned"
        /\ rate_html[h] = <<>>
        /\ issued[h] = <<>>
        /\ \A a \in Abbrs : store[a].Tstamp = DecInt(T0)

\* ------------------------------------------------------------------------
\* Properties of two concurrent requests (under SpecRace)
\* ------------------------------------------------------------------------

\* the successful writes of handler h for abbr
WritesOf(h, abbr) == {k \in CallsFor(h, abbr) : issued[h][k].ok}

\* the row a write of handler h for abbr leaves: the quote of its own batch
\* with the timestamp of its own batch
RowOf(h, abbr) ==
    [Rate |-> NumAttr(QuoteOf(h, abbr)),
     Tstamp |-> DecInt(rate_dict[h].timestamp)]

\* C18: with two cycles running at once, every write replaces Rate and
\* Tstamp of its one key together and leaves every other key alone, so the
\* row is the one of the latest write; a written row is always the whole row
\* of one cycle's write, never the rate of one cycle with the timestamp of
\* the other, and a row no cycle wrote is as it was.
C18_LastWriterWins ==
    [][/\ \A h \in Handlers :
             Len(issued'[h]) > Len(issued[h]) =>
                 LET call == issued'[h][Len(issued'[h])]
                 IN  IF call.ok
                     THEN /\ store'[call.abbr] = RowOf(h, call.abbr)
                          /\ \A b \in Abbrs \ {call.abbr} :
                                store'[b] = store[b]
                     ELSE store' = store
       /\ (\A h \in Handlers : issued'[h] = issued[h]) => store' = store
       /\ \A a \in Abbrs :
             \/ /\ store'[a].Tstamp = DecInt(T0)
                /\ \A h \in Handlers : WritesOf(h, a)' = {}
             \/ \E h \in Handlers :
                   /\ WritesOf(h, a)' # {}
                   /\ store'[a] = RowOf(h, a)]_vars

\* both cycles found EUR stale and wrote it, with different rates and
\* different timestamps, and both have returned: the row is the row of one
\* of them
C18_BothWrote ==
    /\ \A h \in Handlers : pc[h] = "returned" /\ WritesOf(h, "EUR") # {}
    /\ QuoteOf(1, "EUR") # QuoteOf(2, "EUR")
    /\ rate_dict[1].timestamp # rate_dict[2].timestamp
    /\ store["EUR"] \in {RowOf(1, "EUR"), RowOf(2, "EUR")}

\* the call handler h has just issued, if the step issued one
NewCall(h) == issued'[h][Len(issued'[h])]

\* C22 as stated: the Tstamp of a row never decreases; every write, under
\* any interleaving of two requests working from different batches, puts a
\* Tstamp strictly greater than the one it replaces.
C22_SavedAtNeverDecreases ==
    [][\A a \in Abbrs :
          store'[a] # store[a] =>
              IntOf(store'[a].Tstamp) > IntOf(store[a].Tstamp)]_vars

\* C22, as the code has it: every write carries the timestamp of the
\* writer's own batch, which is more than 86400 seconds later than the
\* Tstamp the writer's cycle read for that key at line 147; the Tstamp of
\* the row grows whenever the row still is the one the writer read, and
\* nothing but a write changes a row.
C22_WriteLaterThanRead ==
    [][/\ \A h \in Handlers :
             Len(issued'[h]) > Len(issued[h]) =>
                 LET a == NewCall(h).abbr
                 IN  /\ NewCall(h).tstamp = rate_dict[h].timestamp
                     /\ NewCall(h).tstamp - IntOf(loc[h].tstamp) > 86400
                     /\ NewCall(h).ok =>
                           /\ store'[a].Tstamp = DecInt(NewCall(h).tstamp)
                           /\ store[a].Tstamp = loc[h].tstamp =>
                                 IntOf(store'[a].Tstamp) > IntOf(store[a].Tstamp)
       /\ (\A h \in Handlers : issued'[h] = issued[h]) => store' = store]_vars

\* both cycles read EUR before either wrote it, the cycle with the later
\* batch wrote first and the one with the earlier batch last: the row has
\* the earlier timestamp
C22_OlderBatchWroteLast ==
    \E h, g \in Handlers :
        /\ WritesOf(h, "EUR") # {} /\ WritesOf(g, "EUR") # {}
        /\ rate_dict[h].timestamp < rate_dict[g].timestamp
        /\ store["EUR"].Tstamp = DecInt(rate_dict[h].timestamp)
        /\ pc[h] = "returned" /\ pc[g] = "returned"

\* ------------------------------------------------------------------------
\* Properties of repeated requests (under SpecRetry)
\* ------------------------------------------------------------------------

\* C19: a write that fails leaves the row as it was, so the next cycle finds
\* it stale again and writes again; with requests that keep coming and
\* writes that succeed in the end, every row that was stale is written:
\* its Tstamp is no longer the one it started with.
C19_StaleEventuallyFresh ==
    /\ [][\A h \in Handlers :
             (Len(issued'[h]) > Len(issued[h])
                 /\ ~issued'[h][Len(issued'[h])].ok) => store' = store]_vars
    /\ \A a \in Abbrs : <>(store[a].Tstamp # DecInt(T0))

====
